---------------------------- MODULE Spec2Model ----------------------------
(***************************************************************************)
(* Model of the two batch scripts of the repository,                       *)
(*   scripts/generate_videos.py        (called "api" below)                *)
(*   scripts/generate_videos_local.py  (called "local" below)              *)
(* Texts are sequences of one-character strings.  An optional Python       *)
(* argument (None or a value) is the empty or the one-element sequence.    *)
(* Durations are counted in half seconds, so that "+ 0.5" is "+ 1".        *)
(***************************************************************************)
EXTENDS Integers, Sequences, FiniteSets, TLC

VARIABLES
    script,           \* which of the two scripts runs: "api" or "local"
    pc,               \* position of the single control flow
    failedAt,         \* the step whose unhandled exception ended the process
    credential,       \* whether OPENAI_API_KEY is set in the environment
    assets,           \* the *.mp4 files of ASSETS_DIR (file numbers)
    text,             \* the completion reply text
    num_tips,         \* the count passed to generate_tech_tips
    nfrags,           \* fragments the reply under construction is made of
    out_api,          \* outcome of generate_videos.py's generate_tech_tips
    out_local,        \* outcome of generate_videos_local.py's generate_tech_tips
    tips,             \* main: tips
    results,          \* main: results (the in-memory manifest)
    stock_candidates, \* main: stock_candidates
    i,                \* main: the loop index of enumerate(tips), 0-based
    now,              \* int(time.time()), relative to the start of the run
    out_path,         \* build_video: output_path
    use_stock_clip,   \* build_video: use_stock_clip (optional)
    duration,         \* build_video: duration (optional override)
    bg_color,         \* build_video: bg_color
    aud_duration,     \* build_video: aud_duration (optional until measured)
    clip_duration,    \* build_video: clip_duration (optional until computed)
    bg,               \* build_video: bg (optional until built)
    txt_clip,         \* build_video: txt_clip (optional until rendered)
    final,            \* build_video: final (optional until encoded)
    tmp_img,          \* build_video (local): tmp_img (optional)
    uuids,            \* number of uuid4 values drawn so far
    disk,             \* files of OUT_DIR written by this run
    logWrites,        \* number of times videos_log.json was written by this run
    videos_log,       \* content of videos_log.json written by this run
    names,            \* history: out_path of each loop iteration, in order
    stocks,           \* history: use_stock_clip of each loop iteration, in order
    trace,            \* history: the steps executed, in order
    asset_error,      \* history: this build's stock clip could not be decoded
    caller            \* "main" when build_video runs from the batch driver

vars == << script, pc, failedAt, credential, assets, text, num_tips, nfrags,
           out_api, out_local, tips, results, stock_candidates, i, now,
           out_path, use_stock_clip, duration, bg_color, aud_duration,
           clip_duration, bg, txt_clip, final, tmp_img, uuids, disk,
           logWrites, videos_log, names, stocks, trace, asset_error,
           caller >>

tipVars == << text, num_tips, nfrags, out_api, out_local >>

mainVars == << tips, results, stock_candidates, i, now, logWrites, videos_log,
               names, stocks >>

buildVars == << out_path, use_stock_clip, duration, bg_color, aud_duration,
                clip_duration, bg, txt_clip, final, tmp_img, uuids >>

(***************************************************************************)
(* Bounds of the model.                                                    *)
(***************************************************************************)
MaxFrags == 4        \* fragments in a reply text of the tip-parsing model
MaxCount == 3        \* largest count passed to generate_tech_tips there
MaxReplyItems == 6   \* items (lines or sentences) in a reply of the batch model
MaxStock == 3        \* largest file number in ASSETS_DIR
MaxExtra == 1        \* seconds of one run the clock advances beyond the sleeps
MaxOverride == 3     \* largest explicit duration passed (half seconds)

(***************************************************************************)
(* Program constants.                                                      *)
(***************************************************************************)
NumTips == 5          \* generate_tech_tips(num_tips=5)
SentenceMinLen == 10  \* len(s.strip()) > 10
SleepSeconds == 1     \* time.sleep(1)
MinClipSeconds == 8   \* max(8, ...)
MaxClipSeconds == 25  \* min(25, ...)
HalfSecond == 1       \* aud_duration + 0.5, in half seconds
DefaultBgColor == << 18, 18, 18 >>

None == << >>
Some(v) == << v >>

Min(S) == CHOOSE x \in S : \A y \in S : x <= y
Max(S) == CHOOSE x \in S : \A y \in S : y <= x

Take(s, n) == SubSeq(s, 1, IF n < Len(s) THEN n ELSE Len(s))

(***************************************************************************)
(* Python's str methods used by generate_tech_tips.                        *)
(***************************************************************************)
Digits == { "0", "1", "2", "3", "4", "5", "6", "7", "8", "9" }
Whitespace == { " ", "\t", "\n", "\r" }
LineBreaks == { "\n", "\r" }
SentenceEnds == { ".", "!", "?" }
Markers == { ".", ")" }

\* str.isdigit() of one character
isdigit(c) == c \in Digits

\* str.strip()
strip(s) ==
    LET ks == { k \in 1..Len(s) : s[k] \notin Whitespace }
    IN  IF ks = {} THEN << >> ELSE SubSeq(s, Min(ks), Max(ks))

\* str.splitlines(): no last empty line, "\r\n" is one break
RECURSIVE splitlines(_)
splitlines(s) ==
    IF s = << >> THEN << >>
    ELSE LET brk == { k \in 1..Len(s) : s[k] \in LineBreaks }
         IN  IF brk = {} THEN << s >>
             ELSE LET k == Min(brk)
                      e == IF s[k] = "\r" /\ k < Len(s) /\ s[k + 1] = "\n"
                           THEN k + 1 ELSE k
                  IN  << SubSeq(s, 1, k - 1) >>
                        \o splitlines(SubSeq(s, e + 1, Len(s)))

\* line.split('.', 1)[1]
after_first_dot(line) ==
    LET k == Min({ j \in 1..Len(line) : line[j] = "." })
    IN  SubSeq(line, k + 1, Len(line))

\* re.split(r'(?<=[.!?]) +', text): the scan from position pos, the piece
\* under construction starting at position start
RECURSIVE re_split_from(_, _, _)
re_split_from(s, start, pos) ==
    IF pos > Len(s) THEN << SubSeq(s, start, Len(s)) >>
    ELSE IF s[pos] = " " /\ pos > 1 /\ s[pos - 1] \in SentenceEnds
         THEN LET e == Min({ q \in pos..Len(s) :
                               q = Len(s) \/ s[q + 1] # " " })
              IN  << SubSeq(s, start, pos - 1) >>
                    \o re_split_from(s, e + 1, e + 1)
         ELSE re_split_from(s, start, pos + 1)

re_split(s) == re_split_from(s, 1, 1)

MapStrip(ss) == [ k \in 1..Len(ss) |-> strip(ss[k]) ]

\* faulty variant: the length test admits a sentence of exactly 10 characters
long_enough_ge(s) == Len(strip(s)) >= SentenceMinLen

long_enough(s) == Len(strip(s)) > SentenceMinLen

\* [s.strip() for s in sentences if len(s.strip()) > 10][:num_tips]
fallback_sentences(t, n) ==
    Take(MapStrip(SelectSeq(re_split(t), long_enough)), n)

(***************************************************************************)
(* generate_videos.py: generate_tech_tips, lines 39-53.  The outcome is    *)
(* [raised, tips]: raised when line[1] is read of a one-character line.    *)
(***************************************************************************)
strip_numbering(line) ==
    IF isdigit(line[1])
    THEN IF Len(line) < 2
         THEN [ raised |-> TRUE, line |-> line ]
         ELSE IF line[2] \in Markers
              THEN [ raised |-> FALSE,
                     line |-> IF \E j \in 1..Len(line) : line[j] = "."
                              THEN strip(after_first_dot(line)) ELSE line ]
              ELSE [ raised |-> FALSE, line |-> line ]
    ELSE [ raised |-> FALSE, line |-> line ]

RECURSIVE parse_lines(_)
parse_lines(ls) ==
    IF ls = << >> THEN [ raised |-> FALSE, lines |-> << >> ]
    ELSE LET line == strip(Head(ls))
         IN  IF line = << >> THEN parse_lines(Tail(ls))
             ELSE LET r == strip_numbering(line)
                      rest == parse_lines(Tail(ls))
                  IN  IF r.raised \/ rest.raised
                      THEN [ raised |-> TRUE, lines |-> << >> ]
                      ELSE [ raised |-> FALSE,
                             lines |-> << r.line >> \o rest.lines ]

generate_tech_tips(t, n) ==
    LET p == parse_lines(splitlines(t))
    IN  IF p.raised THEN [ raised |-> TRUE, tips |-> << >> ]
        ELSE LET lines == IF Len(p.lines) < n
                          THEN fallback_sentences(t, n) ELSE p.lines
             IN  [ raised |-> FALSE, tips |-> Take(lines, n) ]

(***************************************************************************)
(* generate_videos_local.py: generate_tech_tips, lines 51-69.              *)
(***************************************************************************)
strip_numbering_local(line) ==
    IF Len(line) > 1 /\ isdigit(line[1]) /\ line[2] \in Markers
    THEN LET idx == Min({ k \in 2..Len(line) : line[k] \in Markers })
         IN  strip(SubSeq(line, idx + 1, Len(line)))
    ELSE line

RECURSIVE parse_lines_local(_)
parse_lines_local(ls) ==
    IF ls = << >> THEN << >>
    ELSE LET line == strip(Head(ls))
         IN  IF line = << >> THEN parse_lines_local(Tail(ls))
             ELSE << strip_numbering_local(line) >>
                    \o parse_lines_local(Tail(ls))

generate_tech_tips_local(t, n) ==
    LET ls == parse_lines_local(splitlines(t))
        lines == IF Len(ls) < n THEN fallback_sentences(t, n) ELSE ls
    IN  [ raised |-> FALSE, tips |-> Take(lines, n) ]

tech_tips(s, t, n) ==
    IF s = "api" THEN generate_tech_tips(t, n) ELSE generate_tech_tips_local(t, n)


(***************************************************************************)
(* The tip-parsing model: a reply text is put together from fragments and  *)
(* both scripts' generate_tech_tips are applied to it.                     *)
(***************************************************************************)
Scripts == { "api", "local" }

Fragments ==
    { << "1" >>, << "." >>, << ")" >>, << " " >>, << "\n" >>,
      << "a", "b", "c", "d", "e", "f", "g", "h", "i", "j", "!", " " >>,
      << "z", "y", "x", "w", "v", "u", "t", "s", "r", "?", " " >> }

TipIdle ==
    /\ text = << >>
    /\ num_tips = NumTips
    /\ nfrags = 0
    /\ out_api = None
    /\ out_local = None

MainIdle ==
    /\ tips = << >>
    /\ results = << >>
    /\ stock_candidates = << >>
    /\ i = 0
    /\ now = 0
    /\ logWrites = 0
    /\ videos_log = None
    /\ names = << >>
    /\ stocks = << >>

BuildIdle ==
    /\ out_path = None
    /\ use_stock_clip = None
    /\ duration = None
    /\ bg_color = DefaultBgColor
    /\ aud_duration = None
    /\ clip_duration = None
    /\ bg = None
    /\ txt_clip = None
    /\ final = None
    /\ tmp_img = None
    /\ uuids = 0

InitTips ==
    /\ script = "api"
    /\ pc = "reply"
    /\ failedAt = ""
    /\ credential = TRUE
    /\ assets = {}
    /\ text = << >>
    /\ num_tips \in 1..MaxCount
    /\ nfrags = 0
    /\ out_api = None
    /\ out_local = None
    /\ MainIdle
    /\ BuildIdle
    /\ disk = {}
    /\ trace = << >>
    /\ asset_error = FALSE
    /\ caller = "test"

\* the completion service's reply grows by one fragment
AppendFragment ==
    /\ pc = "reply"
    /\ nfrags < MaxFrags
    /\ \E f \in Fragments : text' = text \o f
    /\ nfrags' = nfrags + 1
    /\ UNCHANGED << script, pc, failedAt, credential, assets, num_tips,
                    out_api, out_local, disk, trace, caller,
                    asset_error >>
    /\ UNCHANGED mainVars
    /\ UNCHANGED buildVars

\* both scripts' generate_tech_tips(num_tips) on the reply
ParseReply ==
    /\ pc = "reply"
    /\ pc' = "parsed"
    /\ out_api' = Some(generate_tech_tips(text, num_tips))
    /\ out_local' = Some(generate_tech_tips_local(text, num_tips))
    /\ UNCHANGED << script, failedAt, credential, assets, text, num_tips,
                    nfrags, disk, trace, caller,
                    asset_error >>
    /\ UNCHANGED mainVars
    /\ UNCHANGED buildVars

NextTips == AppendFragment \/ ParseReply

SpecTips == InitTips /\ [][NextTips]_vars


(***************************************************************************)
(* Files of OUT_DIR.  An output path is its stem [ts, idx], standing for   *)
(* outputs/tech_tip_<ts>_<idx>; a file is <<extension, ts or uuid, idx>>.  *)
(***************************************************************************)
video_file(p) == << "mp4", p.ts, p.idx >>

\* output_path.with_suffix(".mp3")
audio_file(p) == << "mp3", p.ts, p.idx >>

\* OUT_DIR / f"text_{uuid.uuid4().hex}.png"
text_image(u) == << "png", u, 0 >>

\* OUT_DIR / "videos_log.json"
log_file == << "json", 0, 0 >>

\* sorted(ASSETS_DIR.glob("*.mp4"))
RECURSIVE sorted(_)
sorted(S) ==
    IF S = {} THEN << >> ELSE << Min(S) >> \o sorted(S \ { Min(S) })

\* Python truth value of an optional number: None and 0 are false
truthy(d) == d # None /\ d[1] # 0

\* max(8, min(25, aud_duration + 0.5)), in half seconds
clamp_duration(aud) ==
    LET v == aud + HalfSecond
        lo == 2 * MinClipSeconds
        hi == 2 * MaxClipSeconds
        m == IF hi < v THEN hi ELSE v
    IN  IF lo > m THEN lo ELSE m

\* clip_duration = duration if duration else max(8, min(25, aud_duration + 0.5))
clip_duration_of(d, aud) == IF truthy(d) THEN d[1] ELSE clamp_duration(aud)

\* ColorClip(size=(W, H), color=bg_color, duration=clip_duration)
ColorClip(color, d) ==
    [ kind |-> "color", file |-> 0, color |-> color, duration |-> d ]

\* VideoFileClip(use_stock_clip) resized, cropped, .set_duration(clip_duration)
StockClip(f, d) ==
    [ kind |-> "stock", file |-> f, color |-> << >>, duration |-> d ]

\* narration lengths the synthesizer may produce, in half seconds
AudioLengths ==
    { 2 * MinClipSeconds - 3, 2 * MinClipSeconds + 4, 2 * MaxClipSeconds + 10 }

(***************************************************************************)
(* Replies of the completion service in the batch model: k numbered lines  *)
(* "1. Tip A.", k sentences "Sentence A!" in one paragraph, or a bare "7". *)
(***************************************************************************)
Letters == << "A", "B", "C", "D", "E", "F", "G", "H", "I", "J" >>
DigitChars == << "1", "2", "3", "4", "5", "6", "7", "8", "9" >>

NumberedLine(j) ==
    << DigitChars[j], ".", " ", "T", "i", "p", " ", Letters[j], "." >>

Sentence(j) ==
    << "S", "e", "n", "t", "e", "n", "c", "e", " ", Letters[j], "!" >>

RECURSIVE Numbered(_)
Numbered(k) ==
    IF k = 0 THEN << >>
    ELSE IF k = 1 THEN NumberedLine(1)
    ELSE Numbered(k - 1) \o << "\n" >> \o NumberedLine(k)

RECURSIVE Paragraph(_)
Paragraph(k) ==
    IF k = 0 THEN << >>
    ELSE IF k = 1 THEN Sentence(1)
    ELSE Paragraph(k - 1) \o << " " >> \o Sentence(k)

Replies ==
    { Numbered(k) : k \in 0..MaxReplyItems }
      \cup { Paragraph(k) : k \in 1..MaxReplyItems }
      \cup { << "7" >> }

(***************************************************************************)
(* The batch driver and build_video.                                       *)
(***************************************************************************)
Init ==
    /\ script \in Scripts
    /\ pc = "start"
    /\ failedAt = ""
    /\ credential \in BOOLEAN
    /\ assets \in SUBSET (1..MaxStock)
    /\ TipIdle
    /\ MainIdle
    /\ BuildIdle
    /\ disk = {}
    /\ trace = << >>
    /\ asset_error = FALSE
    /\ caller = "main"

\* faulty variant: the caption is rendered before the background is built
after_swapped(step) ==
    CASE step = "synth" -> "caption"
      [] step = "caption" -> "background"
      [] step = "background" -> "encode"
      [] step = "encode" -> "cleanup"

\* the order of build_video's statements: the step that follows each step
after(step) ==
    CASE step = "synth" -> "background"
      [] step = "background" -> "caption"
      [] step = "caption" -> "encode"
      [] step = "encode" -> "cleanup"

\* faulty variant: the loop stops one tip early
more_tips_short(k, ts) == k < Len(ts) - 1

\* "for i, tip in enumerate(tips)": whether the loop has a tip at index k
more_tips(k, ts) == k < Len(ts)

\* faulty variant: the entry is inserted at the head of the manifest
append_result_front(rs, tip, file) == << [ tip |-> tip, file |-> file ] >> \o rs

\* results.append({"tip": tip, "file": str(out_path)})
append_result(rs, tip, file) == Append(rs, [ tip |-> tip, file |-> file ])

\* an exception no handler catches: the process ends
Fail(step) ==
    /\ pc' = "failed"
    /\ failedAt' = step

Event(step) == [ step |-> step, tip |-> IF caller = "main" THEN i + 1 ELSE 0 ]

\* module level: the credential check
Start ==
    /\ pc = "start"
    /\ IF credential
       THEN pc' = "gen" /\ UNCHANGED failedAt
       ELSE Fail("credential")
    /\ UNCHANGED << script, credential, assets, disk, trace, caller,
                    asset_error >>
    /\ UNCHANGED tipVars
    /\ UNCHANGED mainVars
    /\ UNCHANGED buildVars

\* main: tips = generate_tech_tips(num_tips=5); results = [];
\* stock_candidates = sorted(ASSETS_DIR.glob("*.mp4"))
GenerateTips ==
    /\ pc = "gen"
    /\ trace' = Append(trace, [ step |-> "gen", tip |-> 0 ])
    /\ \/ /\ Fail("completion")
          /\ UNCHANGED << tips, results, stock_candidates >>
       \/ \E reply \in Replies :
            LET o == tech_tips(script, reply, NumTips)
            IN  IF o.raised
                THEN /\ Fail("parse")
                     /\ UNCHANGED << tips, results, stock_candidates >>
                ELSE /\ tips' = o.tips
                     /\ results' = << >>
                     /\ stock_candidates' = sorted(assets)
                     /\ pc' = "loop"
                     /\ UNCHANGED failedAt
    /\ UNCHANGED << script, credential, assets, text, num_tips, nfrags,
                    out_api, out_local, i, now, logWrites, videos_log, names,
                    stocks, disk, caller, asset_error >>
    /\ UNCHANGED buildVars

\* faulty variant: the round robin starts one file late
stock_for_shifted(k, cands) ==
    IF cands # << >> THEN Some(cands[((k + 1) % Len(cands)) + 1]) ELSE None

\* stock_candidates[i % len(stock_candidates)] if stock_candidates else None
stock_for(k, cands) ==
    IF cands # << >> THEN Some(cands[(k % Len(cands)) + 1]) ELSE None

\* f"tech_tip_{int(time.time())}_{i+1}.mp4"
name_for(k, t) == [ ts |-> t, idx |-> k + 1 ]

\* main: the head of "for i, tip in enumerate(tips)", up to the call of
\* build_video(tip, out_path, use_stock_clip=stock)
LoopHead ==
    /\ pc = "loop"
    /\ IF more_tips(i, tips)
       THEN /\ out_path' = Some(name_for(i, now))
            /\ use_stock_clip' = stock_for(i, stock_candidates)
            /\ UNCHANGED << duration, bg_color, aud_duration, clip_duration,
                            bg, txt_clip, final, tmp_img >>
            /\ names' = Append(names, name_for(i, now))
            /\ stocks' = Append(stocks, stock_for(i, stock_candidates))
            /\ pc' = "synth"
            /\ UNCHANGED uuids
       ELSE /\ pc' = "write"
            /\ UNCHANGED << names, stocks >>
            /\ UNCHANGED buildVars
    /\ UNCHANGED << script, failedAt, credential, assets, tips, results,
                    stock_candidates, i, now, logWrites, videos_log, disk,
                    trace, caller, asset_error >>
    /\ UNCHANGED tipVars

\* build_video: create_voice, AudioFileClip, clip_duration
Synthesize ==
    /\ pc = "synth"
    /\ trace' = Append(trace, Event("synth"))
    /\ \/ \* create_voice raises
          /\ Fail("synthesize")
          /\ UNCHANGED << disk, aud_duration, clip_duration >>
       \/ \* the audio file is written and AudioFileClip raises
          /\ Fail("synthesize")
          /\ disk' = disk \cup { audio_file(out_path[1]) }
          /\ UNCHANGED << aud_duration, clip_duration >>
       \/ \E len \in AudioLengths :
            /\ disk' = disk \cup { audio_file(out_path[1]) }
            /\ aud_duration' = Some(len)
            /\ clip_duration' = Some(clip_duration_of(duration, len))
            /\ pc' = after("synth")
            /\ UNCHANGED failedAt
    /\ UNCHANGED << script, credential, assets, caller, asset_error, out_path,
                    use_stock_clip, duration, bg_color, bg, txt_clip, final,
                    tmp_img, uuids >>
    /\ UNCHANGED tipVars
    /\ UNCHANGED mainVars

\* Path(use_stock_clip).exists()
exists(f) == f \in assets

\* build_video: the background, a stock clip or a solid color
BuildBackground ==
    /\ pc = "background"
    /\ trace' = Append(trace, Event("background"))
    /\ IF use_stock_clip # None /\ exists(use_stock_clip[1])
       THEN \/ /\ bg' = Some(StockClip(use_stock_clip[1], clip_duration[1]))
               /\ pc' = after("background")
               /\ UNCHANGED << failedAt, asset_error >>
            \/ \* the clip cannot be read, decoded, resized or cropped
               /\ asset_error' = TRUE
               /\ IF script = "local"
                  THEN /\ bg' = Some(ColorClip(bg_color, clip_duration[1]))
                       /\ pc' = after("background")
                       /\ UNCHANGED failedAt
                  ELSE /\ Fail("background")
                       /\ UNCHANGED bg
       ELSE /\ bg' = Some(ColorClip(bg_color, clip_duration[1]))
            /\ pc' = after("background")
            /\ UNCHANGED << failedAt, asset_error >>
    /\ UNCHANGED << script, credential, assets, caller, disk, out_path,
                    use_stock_clip, duration, bg_color, aud_duration,
                    clip_duration, txt_clip, final, tmp_img, uuids >>
    /\ UNCHANGED tipVars
    /\ UNCHANGED mainVars

\* build_video: the caption, TextClip (api) or create_text_image_clip (local)
RenderCaption ==
    /\ pc = "caption"
    /\ trace' = Append(trace, Event("caption"))
    /\ IF script = "api"
       THEN \/ /\ txt_clip' = Some([ duration |-> clip_duration[1] ])
               /\ pc' = after("caption")
               /\ UNCHANGED << failedAt, disk, tmp_img, uuids >>
            \/ /\ Fail("caption")
               /\ UNCHANGED << txt_clip, disk, tmp_img, uuids >>
       ELSE \/ /\ uuids' = uuids + 1
               /\ tmp_img' = Some(text_image(uuids + 1))
               /\ disk' = disk \cup { text_image(uuids + 1) }
               /\ txt_clip' = Some([ duration |-> clip_duration[1] ])
               /\ pc' = after("caption")
               /\ UNCHANGED failedAt
            \/ \* fails before img.save(tmp)
               /\ Fail("caption")
               /\ UNCHANGED << txt_clip, disk, tmp_img, uuids >>
            \/ \* fails after img.save(tmp), in ImageClip
               /\ Fail("caption")
               /\ uuids' = uuids + 1
               /\ disk' = disk \cup { text_image(uuids + 1) }
               /\ UNCHANGED << txt_clip, tmp_img >>
    /\ UNCHANGED << script, credential, assets, caller, asset_error, out_path,
                    use_stock_clip, duration, bg_color, aud_duration,
                    clip_duration, bg, final >>
    /\ UNCHANGED tipVars
    /\ UNCHANGED mainVars

\* build_video: CompositeVideoClip, set_audio, write_videofile
Encode ==
    /\ pc = "encode"
    /\ trace' = Append(trace, Event("encode"))
    /\ \/ /\ final' = Some([ duration |-> clip_duration[1] ])
          /\ disk' = disk \cup { video_file(out_path[1]) }
          /\ pc' = after("encode")
          /\ UNCHANGED failedAt
       \/ /\ Fail("encode")
          /\ UNCHANGED << final, disk >>
    /\ UNCHANGED << script, credential, assets, caller, asset_error, out_path,
                    use_stock_clip, duration, bg_color, aud_duration,
                    clip_duration, bg, txt_clip, tmp_img, uuids >>
    /\ UNCHANGED tipVars
    /\ UNCHANGED mainVars

\* build_video: audio.close() and (local) tmp_img.unlink(), errors swallowed
Cleanup ==
    /\ pc = "cleanup"
    /\ trace' = Append(trace, Event("cleanup"))
    /\ IF script = "local"
       THEN \/ disk' = disk \ { tmp_img[1] }
            \/ disk' = disk
       ELSE disk' = disk
    /\ pc' = IF caller = "main" THEN "record" ELSE "returned"
    /\ UNCHANGED << script, failedAt, credential, assets, caller,
                    asset_error >>
    /\ UNCHANGED tipVars
    /\ UNCHANGED mainVars
    /\ UNCHANGED buildVars

\* main: build_video has returned; results.append(...); time.sleep(1)
Record ==
    /\ pc = "record"
    /\ trace' = Append(trace, Event("record"))
    /\ results' = append_result(results, tips[i + 1], video_file(out_path[1]))
    /\ \E extra \in 0..MaxExtra :
         /\ now + SleepSeconds + extra <= (i + 1) * SleepSeconds + MaxExtra
         /\ now' = now + SleepSeconds + extra
    /\ i' = i + 1
    /\ pc' = "loop"
    /\ \* build_video's arguments and locals end with the call
       /\ out_path' = None
       /\ use_stock_clip' = None
       /\ duration' = None
       /\ bg_color' = DefaultBgColor
       /\ aud_duration' = None
       /\ clip_duration' = None
       /\ bg' = None
       /\ txt_clip' = None
       /\ final' = None
       /\ tmp_img' = None
       /\ asset_error' = FALSE
       /\ UNCHANGED uuids
    /\ UNCHANGED << script, failedAt, credential, assets, caller, disk, tips,
                    stock_candidates, logWrites, videos_log, names, stocks >>
    /\ UNCHANGED tipVars

\* main: json.dump(results, f) into OUT_DIR / "videos_log.json"
WriteLog ==
    /\ pc = "write"
    /\ trace' = Append(trace, [ step |-> "write", tip |-> 0 ])
    /\ logWrites' = logWrites + 1
    /\ videos_log' = Some(results)
    /\ disk' = disk \cup { log_file }
    /\ pc' = "done"
    /\ UNCHANGED << script, failedAt, credential, assets, caller, tips,
                    results, stock_candidates, i, now, names, stocks,
                    asset_error >>
    /\ UNCHANGED tipVars
    /\ UNCHANGED buildVars

Next ==
    \/ Start
    \/ GenerateTips
    \/ LoopHead
    \/ Synthesize
    \/ BuildBackground
    \/ RenderCaption
    \/ Encode
    \/ Cleanup
    \/ Record
    \/ WriteLog

Spec == Init /\ [][Next]_vars

(***************************************************************************)
(* build_video called on its own, with any duration override and stock     *)
(* clip argument.                                                          *)
(***************************************************************************)
Overrides == { None } \cup { Some(v) : v \in 0..MaxOverride }
               \cup { Some(2 * MaxClipSeconds + 2 * v) : v \in 1..MaxOverride }

InitBuild ==
    /\ script \in Scripts
    /\ pc = "call"
    /\ failedAt = ""
    /\ credential = TRUE
    /\ assets \in SUBSET (1..MaxStock)
    /\ TipIdle
    /\ MainIdle
    /\ BuildIdle
    /\ disk = {}
    /\ trace = << >>
    /\ asset_error = FALSE
    /\ caller = "direct"

\* build_video(tip_text, output_path, duration=d, use_stock_clip=st)
CallBuildVideo ==
    /\ pc = "call"
    /\ \E d \in Overrides, st \in { None } \cup { Some(f) : f \in 1..MaxStock } :
         /\ duration' = d
         /\ use_stock_clip' = st
    /\ out_path' = Some(name_for(0, 0))
    /\ pc' = "synth"
    /\ UNCHANGED << script, failedAt, credential, assets, disk, trace, caller,
                    asset_error, bg_color, aud_duration, clip_duration, bg, txt_clip,
                    final, tmp_img, uuids >>
    /\ UNCHANGED tipVars
    /\ UNCHANGED mainVars

NextBuild ==
    \/ CallBuildVideo
    \/ Synthesize
    \/ BuildBackground
    \/ RenderCaption
    \/ Encode
    \/ Cleanup

SpecBuild == InitBuild /\ [][NextBuild]_vars


(***************************************************************************)
(* Properties.                                                             *)
(***************************************************************************)
IsPrefix(a, b) == Len(a) <= Len(b) /\ SubSeq(b, 1, Len(a)) = a

\* the j-th smallest element of a set of numbers
NthSmallest(S, j) == CHOOSE a \in S : Cardinality({ b \in S : b < a }) = j - 1

\* tips whose build_video ran to its last statement
BuiltTips ==
    { trace[j].tip : j \in { j \in 1..Len(trace) : trace[j].step = "cleanup" } }

\* tips whose build_video call has returned to the driver
ReturnedTips == IF pc = "record" THEN BuiltTips \ { i + 1 } ELSE BuiltTips

\* the {tip, file} entries of the first k tips, in generation order
ManifestOf(k) ==
    [ j \in 1..k |-> [ tip |-> tips[j], file |-> video_file(names[j]) ] ]

C1_ManifestState ==
    /\ Len(results) <= Len(tips)
    /\ Len(results) <= Len(names)
    /\ ReturnedTips = 1..Len(results)
    /\ results = ManifestOf(Len(results))
    /\ pc = "done" => videos_log = Some(ManifestOf(Len(tips)))

\* C1: at every point of a run the in-memory manifest holds exactly one
\* {tip, file} entry for each tip whose build_video call has returned, in
\* generation order, and none for any other tip; entries are only appended,
\* never changed or removed; on normal completion videos_log.json lists every
\* tip returned by generate_tech_tips, in order, each with its own file.
C1_Manifest == [](C1_ManifestState) /\ [][IsPrefix(results, results')]_vars

C1_Witness ==
    /\ pc = "done"
    /\ Len(results) = NumTips
    /\ results[1].tip # results[2].tip
    /\ videos_log = Some(results)

\* C2: a run that fails at any step never writes videos_log.json; the
\* manifest is written at most once, only after every tip has been built;
\* the videos built before the failure remain on disk.
C2_NoPartialManifest ==
    /\ logWrites <= 1
    /\ logWrites = 0 => videos_log = None /\ log_file \notin disk
    /\ logWrites = 1 => BuiltTips = 1..Len(tips) /\ Len(results) = Len(tips)
    /\ pc = "failed" =>
         /\ logWrites = 0
         /\ \A k \in 1..Len(results) : results[k].file \in disk

C2_Witness ==
    /\ pc = "failed"
    /\ failedAt = "encode"
    /\ Len(results) = 2
    /\ Len(tips) = NumTips

\* an enumeration marker "1." or "1)" at the head of a string
HasMarker(s) == Len(s) >= 2 /\ s[1] \in Digits /\ s[2] \in { ".", ")" }

WellFormed(o) ==
    /\ ~ o.raised
    /\ Len(o.tips) <= num_tips
    /\ \A k \in 1..Len(o.tips) : o.tips[k] # << >> /\ ~ HasMarker(o.tips[k])

\* C3: for every count >= 1 and every reply text, generate_tech_tips(count)
\* of both scripts never raises and returns at most count entries, each a
\* non-empty string with its leading enumeration marker stripped.
C3_TipsWellFormed ==
    pc = "parsed" => WellFormed(out_api[1]) /\ WellFormed(out_local[1])

\* C4: after every successful build_video call the temporary narration
\* audio file and (local) the temporary caption image no longer exist on
\* disk; after a complete run no temporary file remains in OUT_DIR.
C4_TempFilesRemoved ==
    /\ pc = "record" =>
         /\ audio_file(out_path[1]) \notin disk
         /\ tmp_img # None => tmp_img[1] \notin disk
    /\ pc = "done" => \A f \in disk : f[1] \notin { "mp3", "png" }

\* C5: an asset error is never fatal in either script: when the stock clip
\* exists but cannot be decoded, the build falls back to a solid-color
\* background of the given color and the clip duration and continues.
C5_AssetErrorNotFatal ==
    asset_error =>
      /\ ~ (pc = "failed" /\ failedAt = "background")
      /\ bg = Some(ColorClip(bg_color, clip_duration[1]))

\* a position of a run of spaces that directly follows '.', '!' or '?'
InSeparator(t, p) ==
    /\ t[p] = " "
    /\ \E q \in 2..p : t[q - 1] \in { ".", "!", "?" }
                         /\ \A r \in q..p : t[r] = " "

SentenceStarts(t) ==
    { b \in 1..Len(t) : ~ InSeparator(t, b) /\ (b = 1 \/ InSeparator(t, b - 1)) }

SentenceEnd(t, b) ==
    Max({ e \in b..Len(t) : \A r \in b..e : ~ InSeparator(t, r) })

RECURSIVE Trimmed(_)
Trimmed(s) ==
    IF s = << >> THEN s
    ELSE IF Head(s) \in Whitespace THEN Trimmed(Tail(s))
    ELSE IF s[Len(s)] \in Whitespace THEN Trimmed(SubSeq(s, 1, Len(s) - 1))
    ELSE s

\* the sentences of a text, trimmed, in their order
SentenceList(t) ==
    [ j \in 1..Cardinality(SentenceStarts(t)) |->
        LET b == NthSmallest(SentenceStarts(t), j)
        IN  Trimmed(SubSeq(t, b, SentenceEnd(t, b))) ]

ExceedsTen(s) == Len(s) > 10

LongSentences(t) == SelectSeq(SentenceList(t), ExceedsTen)

\* the number of lines the line-based parse yields: the non-blank lines
NonBlankLines(t) ==
    Cardinality({ k \in 1..Len(splitlines(t)) : strip(splitlines(t)[k]) # << >> })

\* a single paragraph that does not start with a digit
UnnumberedParagraph(t) ==
    /\ \A k \in 1..Len(t) : t[k] \notin LineBreaks
    /\ strip(t) # << >> => strip(t)[1] \notin Digits

FallbackResult(o) ==
    /\ NonBlankLines(text) < num_tips =>
         o.tips = Take(LongSentences(text), num_tips)
    /\ UnnumberedParagraph(text) /\ Len(LongSentences(text)) >= num_tips =>
         Len(o.tips) = num_tips

\* C6: when the line-based parse yields fewer than count lines,
\* generate_tech_tips(count) returns the first count sentences of the raw
\* reply (split after '.', '!' or '?' followed by spaces) whose trimmed
\* length exceeds 10, trimmed, in order; a single unnumbered paragraph with
\* at least count such sentences yields exactly count entries, a reply with
\* fewer yields fewer.
C6_Fallback ==
    pc = "parsed" =>
      /\ FallbackResult(out_local[1])
      /\ ~ out_api[1].raised => FallbackResult(out_api[1])

C6_Witness ==
    /\ pc = "parsed"
    /\ num_tips >= 2
    /\ NonBlankLines(text) < num_tips
    /\ Len(LongSentences(text)) > num_tips
    /\ Len(SentenceList(text)) > Len(LongSentences(text))
    /\ ~ out_api[1].raised
    /\ Len(out_api[1].tips) = num_tips
    /\ Len(out_local[1].tips) = num_tips

\* clamp(x, lo, hi)
Clamp(x, lo, hi) == IF x < lo THEN lo ELSE IF x > hi THEN hi ELSE x

\* C7: the clip duration used for background, caption and final composite
\* is the passed duration whenever one is passed (0 included), and otherwise
\* clamp(narration_length + 0.5, 8, 25), which lies in [8, 25].
C7_DurationUsed ==
    clip_duration # None =>
      /\ clip_duration[1] = IF duration # None THEN duration[1]
                            ELSE Clamp(aud_duration[1] + 1, 2 * 8, 2 * 25)
      /\ duration = None =>
           clip_duration[1] >= 2 * 8 /\ clip_duration[1] <= 2 * 25
      /\ bg # None => bg[1].duration = clip_duration[1]
      /\ txt_clip # None => txt_clip[1].duration = clip_duration[1]
      /\ final # None => final[1].duration = clip_duration[1]

UseCount(a) == Cardinality({ k \in 1..Len(stocks) : stocks[k] = Some(a) })

\* C8: with n >= 1 stock files sorted by filename, the tip at 0-based
\* position i is built with stock file (i mod n) of the sorted list, so any
\* n consecutive tips use every stock file once and the use counts of two
\* stock files differ by at most 1; with n = 0 no tip gets a stock clip; the
\* output file of the tip at position i carries index i+1, so the output
\* names of a run are pairwise distinct.
C8_RoundRobin ==
    LET n == Cardinality(assets)
    IN  /\ Len(stocks) = Len(names)
        /\ \A k \in 1..Len(stocks) :
             stocks[k] = IF n = 0 THEN None
                         ELSE Some(NthSmallest(assets, ((k - 1) % n) + 1))
        /\ n >= 1 =>
             \A s \in 1..(Len(stocks) - n + 1) : \A a \in assets :
               Cardinality({ k \in s..(s + n - 1) : stocks[k] = Some(a) }) = 1
        /\ \A a, b \in assets : UseCount(a) - UseCount(b) <= 1
        /\ \A k \in 1..Len(names) : names[k].idx = k
        /\ \A j, k \in 1..Len(names) : j # k => names[j] # names[k]
        /\ pc \in { "synth", "background", "caption", "encode", "cleanup" } =>
             /\ out_path = Some(names[i + 1])
             /\ use_stock_clip = stocks[i + 1]

C8_Witness ==
    /\ Len(stocks) = NumTips
    /\ assets = { 1, 3 }
    /\ stocks[NumTips] = Some(1)
    /\ pc = "done"

\* C9: for every count and reply text both scripts' generate_tech_tips
\* produce the same outcome: the same sequence of tips, or both fail.
C9_SameOutcome == pc = "parsed" => out_api[1] = out_local[1]

TipSteps(k) ==
    [ j \in 1..6 |->
        [ step |-> << "synth", "background", "caption", "encode", "cleanup",
                      "record" >>[j],
          tip |-> k ] ]

RECURSIVE ExpectedBuilds(_)
ExpectedBuilds(n) ==
    IF n = 0 THEN << >> ELSE ExpectedBuilds(n - 1) \o TipSteps(n)

\* the steps of a complete run over n tips
ExpectedRun(n) ==
    << [ step |-> "gen", tip |-> 0 ] >> \o ExpectedBuilds(n)
      \o << [ step |-> "write", tip |-> 0 ] >>

\* C10: a run is fully sequential: generate_tech_tips is called exactly once
\* before any build; each tip's steps occur in the order synthesize,
\* background, caption, encode, cleanup; no step of tip i+1 starts before
\* tip i's cleanup has finished and its manifest entry is appended; the
\* manifest write comes after the last tip's steps.
C10_Sequential ==
    /\ IsPrefix(trace, ExpectedRun(Len(tips)))
    /\ pc = "done" => trace = ExpectedRun(Len(tips))
    /\ pc \in { "synth", "background", "caption", "encode", "cleanup" } =>
         Len(results) = i

C10_Witness ==
    /\ pc = "done"
    /\ Len(tips) = NumTips
    /\ Len(trace) = 2 + 6 * NumTips

=============================================================================
